---- MODULE Spec2Model ----
(***************************************************************************)
(* Model of the plan-execute-replan control loop of fnly-podcast           *)
(* (app/agents/plan_execution_agent.py, class PlanExecuteAgent).           *)
(*                                                                         *)
(* The graph has three nodes, planner, agent and re_plan.  One action of   *)
(* the model is one super-step of the graph: the node's function, the      *)
(* merge of the dictionary it returns into the state channels (a reducer   *)
(* for past_steps and current_step, last-value for plan and response), the *)
(* evaluation of the node's outgoing edge and the recursion-limit check.   *)
(* The language model is an oracle: its outputs are drawn from bounded     *)
(* sets.  A node that raises commits nothing and the exception leaves      *)
(* run().                                                                  *)
(***************************************************************************)
EXTENDS Integers, Sequences, FiniteSets, TLC

VARIABLES input, plan, past_steps, current_step, response,
          node, step, limit, status, error, task, last, replans, oracle,
          auth_ok

\* OrchestratorAgent / ReActAgent: the clock, the checkpoints of the shared
\* MemorySaver by thread id, and per run its thread id, its position in the
\* graph and the messages of its state
VARIABLES now, memory, run_thread, run_phase, run_messages

orch_vars == <<now, memory, run_thread, run_phase, run_messages>>

pe_vars == <<input, plan, past_steps, current_step, response,
             node, step, limit, status, error, task, last, replans, oracle,
             auth_ok>>

\* POST /chat: per request its reply
VARIABLES chat_reply

chat_vars == <<chat_reply>>

\* App.init (the legacy pipeline): the stage the call is at, the calls it made
\* with their results, the fetched newsletters, the extracted contents, the
\* summary and the last line logged
VARIABLES app_pc, app_calls, app_newsletters, app_contents, app_summary,
          app_log

app_vars == <<app_pc, app_calls, app_newsletters, app_contents, app_summary,
              app_log>>

\* EmailClient.fetch_newsletters: the position in the call, whether the
\* account holds a valid token, the authenticate and session.get calls made
\* with their results, the status of every GET request sent to the server,
\* the status of `response`, and what the call handed its caller
VARIABLES fetch_pc, fetch_token_ok, fetch_trace, fetch_wire, fetch_response,
          fetch_result

fetch_vars == <<fetch_pc, fetch_token_ok, fetch_trace, fetch_wire,
                fetch_response, fetch_result>>

\* FetchEmailTool._run / EmailProcessingTool._run: the position in the
\* call, the tool, the raw e-mails fetched, the index of the loop, the
\* e-mails collected so far and what the call returned
VARIABLES tool_pc, tool_name, tool_raw, tool_i, tool_emails, tool_result

tool_vars == <<tool_pc, tool_name, tool_raw, tool_i, tool_emails,
               tool_result>>

\* EmailMetadataStore and EmailStorageManager: the table email_metadata by
\* e-mail id, the documents added to the vector store, per e-mail id the
\* metadata of the last write that succeeded, the last call made on the
\* metadata store, and the state of the call of process_and_store_email
VARIABLES db, vectors, written, store_last, ps

store_vars == <<db, vectors, written, store_last, ps>>

\* EmailSendingTool._run: the position in the call, the authenticate and
\* post calls made so far with the call of _run they belong to, and what
\* the last call of _run handed its caller
VARIABLES send_pc, send_trace, send_result

send_vars == <<send_pc, send_trace, send_result>>

\* the variables of the components besides the two agents
aux_vars == <<chat_vars, app_vars, fetch_vars, tool_vars, store_vars,
              send_vars>>

\* what the actions of one component leave alone
not_chat_vars == <<pe_vars, app_vars, fetch_vars, tool_vars, store_vars,
                   send_vars>>
not_app_vars == <<pe_vars, orch_vars, chat_vars, fetch_vars, tool_vars,
                  store_vars, send_vars>>
not_fetch_vars == <<pe_vars, orch_vars, chat_vars, app_vars, tool_vars,
                    store_vars, send_vars>>
not_tool_vars == <<pe_vars, orch_vars, chat_vars, app_vars, fetch_vars,
                   store_vars, send_vars>>
not_store_vars == <<pe_vars, orch_vars, chat_vars, app_vars, fetch_vars,
                    tool_vars, send_vars>>
not_send_vars == <<pe_vars, orch_vars, chat_vars, app_vars, fetch_vars,
                   tool_vars, store_vars>>

vars == <<pe_vars, orch_vars, aux_vars>>

(***************************************************************************)
(* Bounds of the model.                                                    *)
(***************************************************************************)
\* longest plan the oracle returns
MaxPlanLen == 10
\* most tool calls the oracle puts in one turn
MaxCallsPerTurn == 2
\* most tool results a run's history holds (the oracle stops calling tools)
MaxToolMsgs == 2

\* most newsletters one fetch returns
MaxNewsletters == 3

\* most chunks the text of one e-mail is split into
MaxChunks == 2
\* most e-mail ids in use
MaxEmailIds == 2
\* most calls of EmailSendingTool._run
MaxSendCalls == 3

\* most raw e-mails one tool call fetches
MaxRawEmails == 3

\* the clock runs from 0 to MaxNow ticks
MaxNow == 3
\* ticks of the clock in one second
TicksPerSecond == 2
\* model turns of one ReActAgent run after which the oracle calls no tool
MaxReactTurns == 2
\* most tool calls of one ReActAgent model turn
MaxReactCalls == 1

(***************************************************************************)
(* Program constants.                                                      *)
(***************************************************************************)
\* config = {"recursion_limit": 20}
recursion_limit == 20

\* Retry(total=3, ...): how often the transport of the e-mail client sends
\* a request again
RetryTotal == 3

\* marker of a state channel that was never written
Unset == "<unset>"

\* the objective handed to run()
Objective == "fetch 2 emails and summarize them"

\* self.tools_by_name: the names of the registered tools (the agent is built
\* here with one tool, the e-mail sender)
tools_by_name == {"EmailSendingTool"}

\* the tool names the oracle may ask for: the registered ones and one that
\* is not registered
OracleToolNames == tools_by_name \cup {"UnknownTool"}

\* texts the re-planner may respond with (the empty text included)
ResponseTexts == {"", "done"}

Min(a, b) == IF a < b THEN a ELSE b

\* the concurrent runs of OrchestratorAgent.run
Runs == {1, 2}

\* a run that has no configuration yet
NoThread == -1

\* datetime.now().strftime("%Y%m%d%H%M%S"): the time of the start, cut to the
\* second
thread_id(t) == t \div TicksPerSecond

\* the thread ids a run can get
ThreadIds == {thread_id(t) : t \in 0..MaxNow}

(***************************************************************************)
(* Messages of the history.                                                *)
(***************************************************************************)
\* one tool call of an oracle turn: tool_call["name"], tool_call["id"]
ToolCall(name, id) == [name |-> name, id |-> id]

\* the oracle's turn (agent_response) with its tool calls
AIMessage(calls) ==
    [type |-> "ai", tool_calls |-> calls, name |-> "", tool_call_id |-> 0,
     content |-> ""]

\* the raw result of a tool that returned (EmailSendingTool._run): without
\* an authenticated session the tool returns the failure text as its result
ToolResult(name) ==
    IF auth_ok THEN "Successfully sent email." ELSE "Authentication failed."

\* ToolMessage(content=tool_result, name=..., tool_call_id=...)
ToolMessage(content, name, id) ==
    [type |-> "tool", tool_calls |-> <<>>, name |-> name, tool_call_id |-> id,
     content |-> content]

(***************************************************************************)
(* The oracle's structured outputs.                                        *)
(***************************************************************************)
\* a plan of n steps; the steps of the g-th plan of a run are <<g, 1>> ..
\* <<g, n>>, so the steps of different plans differ
PlanOf(g, n) == [i \in 1..n |-> <<g, i>>]

\* Plan(steps=...)
Plan(steps) == [kind |-> "Plan", steps |-> steps, response |-> ""]

\* Response(response=...)
Response(text) == [kind |-> "Response", steps |-> <<>>, response |-> text]

\* the structured output could not be decoded: with_structured_output raises
SchemaMismatch == [kind |-> "SchemaMismatch", steps |-> <<>>, response |-> ""]

\* what self.planner.invoke may give: any plan, the empty one included, or a
\* decoding failure
PlannerOutputs ==
    {Plan(PlanOf(0, n)) : n \in 0..MaxPlanLen} \cup {SchemaMismatch}

\* what self.re_planner.invoke may give as output.action; g numbers the plan.
\* The stub "always_revise" only ever revises with a fresh non-empty plan.
RePlannerOutputs(stub, g) ==
    IF stub = "always_revise"
    THEN {Plan(PlanOf(g, n)) : n \in 1..MaxPlanLen}
    ELSE {Plan(PlanOf(g, n)) : n \in 0..MaxPlanLen}
         \cup {Response(t) : t \in ResponseTexts}
         \cup {SchemaMismatch}

\* the tool results a history holds
NumToolMsgs(hist) == Cardinality({i \in 1..Len(hist) : hist[i].type = "tool"})

\* what self.executor.invoke may give: a turn with 0..MaxCallsPerTurn tool
\* calls, each naming any tool, registered or not; the call identifiers are
\* fresh (the calls of a run are numbered)
AgentResponses(hist) ==
    LET base == NumToolMsgs(hist)
        room == Min(MaxCallsPerTurn, MaxToolMsgs - base)
    IN  UNION { { AIMessage([i \in 1..k |-> ToolCall(names[i], base + i)])
                  : names \in [1..k -> OracleToolNames] }
                : k \in 0..room }

(***************************************************************************)
(* The state channels of PlanExecute and their merge.                      *)
(***************************************************************************)
\* the state dictionary the nodes and the edge functions read
State ==
    [input |-> input, plan |-> plan, past_steps |-> past_steps,
     current_step |-> current_step, response |-> response]

\* a past_steps channel that keeps the last value written instead of adding
past_steps_overwritten(old, new) == new

\* past_steps: Annotated[List[BaseMessage], operator.add]
past_steps_reducer(old, new) == old \o new

\* current_step: Annotated[int, operator.add]
current_step_reducer(old, new) == old + new

\* the state after a node's returned dictionary is merged into the channels
Merge(s, update) ==
    [input        |-> IF "input" \in DOMAIN update THEN update.input
                      ELSE s.input,
     plan         |-> IF "plan" \in DOMAIN update THEN update.plan ELSE s.plan,
     past_steps   |-> IF "past_steps" \in DOMAIN update
                      THEN past_steps_reducer(s.past_steps, update.past_steps)
                      ELSE s.past_steps,
     current_step |-> IF "current_step" \in DOMAIN update
                      THEN current_step_reducer(s.current_step,
                                                update.current_step)
                      ELSE s.current_step,
     response     |-> IF "response" \in DOMAIN update THEN update.response
                      ELSE s.response]

(***************************************************************************)
(* The edges of the graph.                                                 *)
(***************************************************************************)
END == "__end__"

\* an edge that also stays in the executor when the cursor is at the end
should_continue_execution_inclusive(s) ==
    IF s.plan # <<>> /\ s.current_step <= Len(s.plan) THEN "agent"
    ELSE "re_plan"

\* _should_continue_execution
should_continue_execution(s) ==
    IF s.plan # <<>> /\ s.current_step < Len(s.plan) THEN "agent" ELSE "re_plan"

\* _should_end: "response" in state and state["response"]
should_end(s) ==
    IF s.response # Unset /\ s.response # "" THEN END ELSE "agent"

\* the node that follows node n in state s (add_edge / add_conditional_edges)
NextNode(n, s) ==
    CASE n = "planner" -> "agent"
      [] n = "agent"   -> should_continue_execution(s)
      [] n = "re_plan" -> should_end(s)

\* a limit check that lets one node too many run
out_of_steps_late(n) == n > limit

\* the recursion limit: after the n-th node of a run the loop stops when the
\* configured limit is used up
out_of_steps(n) == n >= limit

(***************************************************************************)
(* The node functions.                                                     *)
(***************************************************************************)
\* a planner that also rewrites the objective
plan_step_clears_input(out) == [plan |-> out.steps, input |-> ""]

\* _plan_step: return {"plan": plan.steps}
plan_step(out) == [plan |-> out.steps]

\* a re-planner that appends the revised steps to the plan it was given
re_plan_step_appends(out) ==
    IF out.kind = "Response" THEN [response |-> out.response]
    ELSE [plan |-> plan \o out.steps]

\* _re_plan_step: a Response sets the response, anything else the plan
re_plan_step(out) ==
    IF out.kind = "Response" THEN [response |-> out.response]
    ELSE [plan |-> out.steps]

\* a loop that resolves only the first tool call of the turn
tool_outputs_first_only(calls) ==
    [i \in 1..Min(1, Len(calls)) |->
        ToolMessage(ToolResult(calls[i].name), calls[i].name, calls[i].id)]

\* the loop of _execute_step over agent_response.tool_calls, when no call
\* fails: one ToolMessage per call, in call order, tagged with the call's id
tool_outputs(calls) ==
    [i \in 1..Len(calls) |->
        ToolMessage(ToolResult(calls[i].name), calls[i].name, calls[i].id)]

\* the first call of the loop that raises, 0 when none does: a name that is
\* not in tools_by_name raises KeyError at the lookup, and the tool invoked
\* for call number raise_at raises from invoke
FirstFailure(calls, raise_at) ==
    LET bad == {i \in 1..Len(calls) :
                    calls[i].name \notin tools_by_name \/ i = raise_at}
    IN  IF bad = {} THEN 0 ELSE CHOOSE i \in bad : \A j \in bad : i <= j

\* the exception that leaves the loop at call number i
FailureOf(calls, i) ==
    IF calls[i].name \notin tools_by_name THEN "KeyError" ELSE "ToolException"

\* an executor that also removes the step it completed from the plan
execute_step_pops_plan(agent_response, outputs) ==
    [past_steps |-> <<agent_response>> \o outputs, current_step |-> 1,
     plan |-> Tail(plan)]

\* an executor that advances the cursor once per tool call
execute_step_per_call(agent_response, outputs) ==
    [past_steps |-> <<agent_response>> \o outputs,
     current_step |-> Len(outputs)]

\* _execute_step: return {"past_steps": [agent_response, *outputs],
\*                        "current_step": 1}
execute_step(agent_response, outputs) ==
    [past_steps |-> <<agent_response>> \o outputs, current_step |-> 1]

(***************************************************************************)
(* One super-step of the graph.                                            *)
(***************************************************************************)
\* a loop that swallows the exception of a node and runs the node again
Raise_retried(exc, out) ==
    /\ status' = "pending"
    /\ error' = exc
    /\ last' = [node |-> node, output |-> out, raised |-> TRUE]
    /\ UNCHANGED <<input, plan, past_steps, current_step, response, node,
                   step, limit, replans, oracle, auth_ok, orch_vars,
                   aux_vars>>

\* the node raised: nothing it computed is committed, the run ends with the
\* exception
Raise(exc, out) ==
    /\ status' = "failed"
    /\ error' = exc
    /\ last' = [node |-> node, output |-> out, raised |-> TRUE]
    /\ UNCHANGED <<input, plan, past_steps, current_step, response, node,
                   step, limit, replans, oracle, auth_ok, orch_vars,
                   aux_vars>>

\* the node returned update: the channels are merged, the outgoing edge is
\* evaluated on the merged state, and the recursion limit is checked.  A run
\* whose node number `limit` leads to END ends normally or with
\* GraphRecursionError, depending on the graph library's version (strict).
Commit(update, out, strict) ==
    LET s == Merge(State, update)
        n == NextNode(node, s)
    IN  /\ input' = s.input
        /\ plan' = s.plan
        /\ past_steps' = s.past_steps
        /\ current_step' = s.current_step
        /\ response' = s.response
        /\ node' = n
        /\ step' = step + 1
        /\ replans' = IF node = "re_plan" THEN replans + 1 ELSE replans
        /\ last' = [node |-> node, output |-> out, raised |-> FALSE]
        /\ IF out_of_steps(step + 1) /\ (n # END \/ strict)
           THEN status' = "failed" /\ error' = "GraphRecursionError"
           ELSE /\ status' = IF n = END THEN "done" ELSE "pending"
                /\ error' = error
        /\ UNCHANGED <<limit, oracle, auth_ok, orch_vars, aux_vars>>

\* the planner node
PlanStep ==
    /\ status = "pending" /\ node = "planner"
    /\ \E out \in PlannerOutputs :
         IF out.kind = "SchemaMismatch"
         THEN Raise("OutputParserException", out) /\ UNCHANGED task
         ELSE Commit(plan_step(out), out, FALSE) /\ UNCHANGED task

\* the agent node (the executor)
ExecuteStep ==
    /\ status = "pending" /\ node = "agent"
    /\ IF ~(current_step < Len(plan))
       THEN \* task = plan[current_step] raises
            Raise("IndexError", [kind |-> "none"]) /\ UNCHANGED task
       ELSE \E agent_response \in AgentResponses(past_steps),
               raise_at \in 0..MaxCallsPerTurn :
              LET calls == agent_response.tool_calls
                  f == FirstFailure(calls, raise_at)
              IN  /\ raise_at <= Len(calls)
                  /\ task' = plan[current_step + 1]
                  /\ IF f # 0
                     THEN Raise(FailureOf(calls, f), agent_response)
                     ELSE Commit(execute_step(agent_response,
                                              tool_outputs(calls)),
                                 agent_response, FALSE)

\* the re_plan node
RePlanStep ==
    /\ status = "pending" /\ node = "re_plan"
    /\ \E out \in RePlannerOutputs(oracle, replans + 1), strict \in BOOLEAN :
         IF out.kind = "SchemaMismatch"
         THEN Raise("OutputParserException", out) /\ UNCHANGED task
         ELSE Commit(re_plan_step(out), out, strict) /\ UNCHANGED task

(***************************************************************************)
(* OrchestratorAgent.run and the ReActAgent graph it invokes.  Every run   *)
(* uses the one MemorySaver of the orchestrator; the graph loads the       *)
(* checkpoint of the run's thread id when it starts and saves one after    *)
(* every step.  A message carries the run that produced it.                *)
(***************************************************************************)
\* the query of OrchestratorAgent.run
Query == "Generate a newsletter received today"

\* ("user", message)
HumanMessage(content) ==
    [type |-> "human", tool_calls |-> <<>>, name |-> "", tool_call_id |-> 0,
     content |-> content]

\* message m, produced in run r
Owned(r, m) == [run |-> r, msg |-> m]

\* messages: Annotated[list[BaseMessage], add_messages]
add_messages(old, new) == old \o new

\* ReActAgent.tools_by_name for the tools of _initialize_tools
react_tools_by_name ==
    {"AnalysisTool", "SynthesisTool", "EmailProcessingTool",
     "EmailSendingTool"}

\* the tool names the oracle asks for here: a registered one and one that is
\* not registered
ReactOracleToolNames == {"EmailSendingTool", "UnknownTool"}

\* the model turns of run r in msgs
ReactTurns(msgs, r) ==
    Cardinality({i \in 1..Len(msgs) :
                    msgs[i].run = r /\ msgs[i].msg.type = "ai"})

\* what self.model.invoke may give in run r: a turn with tool calls, or one
\* without
ReactResponses(msgs, r) ==
    LET room == IF ReactTurns(msgs, r) + 1 < MaxReactTurns
                THEN MaxReactCalls ELSE 0
    IN  UNION { { AIMessage([i \in 1..k |->
                                ToolCall(names[i], Len(msgs) + i)])
                  : names \in [1..k -> ReactOracleToolNames] }
                : k \in 0..room }

\* an edge that ends the run after every model turn
should_continue_never(msgs) == "end"

\* _should_continue
should_continue(msgs) ==
    IF msgs[Len(msgs)].msg.tool_calls = <<>> THEN "end" ELSE "continue"

\* the first call of the loop of _tool_node that raises, 0 when none does
ReactFirstFailure(calls, raise_at) ==
    LET bad == {i \in 1..Len(calls) :
                    calls[i].name \notin react_tools_by_name \/ i = raise_at}
    IN  IF bad = {} THEN 0 ELSE CHOOSE i \in bad : \A j \in bad : i <= j

\* time passes
Tick ==
    /\ now < MaxNow
    /\ now' = now + 1
    /\ UNCHANGED <<pe_vars, aux_vars, memory, run_thread, run_phase,
                   run_messages>>

\* OrchestratorAgent.run up to the first node: the thread id is taken from
\* the clock, the checkpoint of that thread is loaded, the query is added
\* and the input checkpoint is saved
StartRun(r) ==
    /\ run_phase[r] = "idle"
    /\ LET tid  == thread_id(now)
           msgs == add_messages(memory[tid],
                                <<Owned(r, HumanMessage(Query))>>)
       IN  /\ run_thread' = [run_thread EXCEPT ![r] = tid]
           /\ run_messages' = [run_messages EXCEPT ![r] = msgs]
           /\ memory' = [memory EXCEPT ![tid] = msgs]
           /\ run_phase' = [run_phase EXCEPT ![r] = "model"]
    /\ UNCHANGED now

\* a direct call of OrchestratorAgent.run()
OrchRun(r) == StartRun(r) /\ UNCHANGED <<pe_vars, aux_vars>>

\* the node "model" (_call_model) and its conditional edge
CallModel(r) ==
    /\ run_phase[r] = "model"
    /\ \E reply \in ReactResponses(run_messages[r], r) :
         LET msgs == add_messages(run_messages[r], <<Owned(r, reply)>>)
         IN  /\ run_messages' = [run_messages EXCEPT ![r] = msgs]
             /\ memory' = [memory EXCEPT ![run_thread[r]] = msgs]
             /\ run_phase' = [run_phase EXCEPT ![r] =
                    IF should_continue(msgs) = "continue" THEN "tools"
                    ELSE "done"]
    /\ UNCHANGED <<pe_vars, aux_vars, now, run_thread>>

\* the node "tools" (_tool_node) and its edge back to "model"; a lookup or
\* a tool that raises ends the run with the exception
ToolNode(r) ==
    /\ run_phase[r] = "tools"
    /\ \E raise_at \in 0..MaxReactCalls :
         LET msgs  == run_messages[r]
             calls == msgs[Len(msgs)].msg.tool_calls
             outs  == [i \in 1..Len(calls) |->
                         Owned(r, tool_outputs(calls)[i])]
             new   == add_messages(msgs, outs)
         IN  /\ raise_at <= Len(calls)
             /\ IF ReactFirstFailure(calls, raise_at) # 0
                THEN /\ run_phase' = [run_phase EXCEPT ![r] = "failed"]
                     /\ UNCHANGED <<run_messages, memory>>
                ELSE /\ run_phase' = [run_phase EXCEPT ![r] = "model"]
                     /\ run_messages' = [run_messages EXCEPT ![r] = new]
                     /\ memory' = [memory EXCEPT ![run_thread[r]] = new]
    /\ UNCHANGED <<pe_vars, aux_vars, now, run_thread>>

(***************************************************************************)
(* POST /chat (main.py): the handler passes the submitted message to       *)
(* app.run inside try/except.  Request r would perform run r.              *)
(***************************************************************************)
\* the messages a client submits
ChatMessages == {"hello", "summarise the newsletters"}

\* def run(self): the parameters of OrchestratorAgent.run besides self
run_parameters == <<>>

\* whether a call with the positional arguments args binds to a function
\* with the parameters params (no defaults, no *args); if not, the call
\* raises TypeError before the body runs
Binds(params, args) == Len(args) = Len(params)

\* no request r yet
NoReply == [kind |-> "none"]

\* return {"error": str(e)}, 500
ErrorReply(e) == [kind |-> "error", error |-> e, code |-> 500]

\* chat(message): response = app.run(message.message) within try/except
Chat(r, m) ==
    /\ chat_reply[r] = NoReply
    /\ run_phase[r] = "idle"
    /\ IF Binds(run_parameters, <<m>>)
       THEN /\ StartRun(r)
            /\ chat_reply' = [chat_reply EXCEPT ![r] = [kind |-> "awaiting"]]
       ELSE /\ chat_reply' = [chat_reply EXCEPT ![r] = ErrorReply("TypeError")]
            /\ UNCHANGED orch_vars
    /\ UNCHANGED not_chat_vars

\* what the handler of request r returns once app.run has returned or raised
chat_result(r) ==
    CASE chat_reply[r].kind = "awaiting" /\ run_phase[r] = "done" ->
            [kind |-> "response", response |-> run_messages[r]]
      [] chat_reply[r].kind = "awaiting" /\ run_phase[r] = "failed" ->
            ErrorReply("Exception")
      [] OTHER -> chat_reply[r]

\* no request was made
ChatInit == chat_reply = [r \in Runs |-> NoReply]

(***************************************************************************)
(* App.init (app.py): authenticate, fetch, extract, analyze, send, all     *)
(* inside one try/except.  The collaborators are oracles: each call        *)
(* returns one of the results it can return, or raises.                    *)
(***************************************************************************)
\* Python's None
None == "None"

\* a call App.init made and how it came back
AppCall(name, result) == [call |-> name, result |-> result]

\* the newsletter lists fetch_newsletters can return: each newsletter has
\* a position and either a body extract_content can handle or not
NewsletterLists ==
    UNION { { [i \in 1..n |-> [id |-> i, parsable |-> ok[i]]]
              : ok \in [1..n -> BOOLEAN] }
            : n \in 0..MaxNewsletters }

\* ContentExtractor.extract_content: the content, or None when anything in
\* the extraction raised
extract_content(email) ==
    IF email.parsable THEN [subject |-> email.id] ELSE [subject |-> 0]

\* the loop of App.init over the newsletters: the contents that are truthy
newsletter_contents(newsletters) ==
    LET got == [i \in 1..Len(newsletters) |-> extract_content(newsletters[i])]
        Truthy(c) == c.subject # 0
    IN  SelectSeq(got, Truthy)

\* what analyze_newsletters can return: it catches every exception
Summaries == {None, "", "<html>summary</html>"}

\* a handler that lets the exception leave init
init_except_reraises(e) == "raised"

\* except Exception as e: logger.error(...); init then returns None
init_except(e) == "returned"

\* EmailClient(settings) and email_client.authenticate()
AppAuthenticate ==
    /\ app_pc = "start"
    /\ \E r \in {"True", "False", "raised", "constructor raised"} :
         /\ app_calls' = IF r = "constructor raised" THEN app_calls
                         ELSE Append(app_calls, AppCall("authenticate", r))
         /\ CASE r = "True"  -> app_pc' = "fetch" /\ app_log' = app_log
              [] r = "False" -> /\ app_pc' = "returned"
                                /\ app_log' = "Authentication failed"
              [] OTHER       -> /\ app_pc' = init_except(r)
                                /\ app_log' = "An error occurred"
    /\ UNCHANGED <<app_newsletters, app_contents, app_summary>>
    /\ UNCHANGED not_app_vars

\* newsletters = email_client.fetch_newsletters(3, senders=[...])
AppFetch ==
    /\ app_pc = "fetch"
    /\ \/ \E got \in NewsletterLists :
            /\ app_calls' = Append(app_calls,
                                   AppCall("fetch_newsletters", Len(got)))
            /\ app_newsletters' = got
            /\ IF got = <<>>
               THEN /\ app_pc' = "returned"
                    /\ app_log' = "No newsletters found"
               ELSE app_pc' = "extract" /\ app_log' = app_log
       \/ /\ app_calls' = Append(app_calls,
                                  AppCall("fetch_newsletters", -1))
          /\ app_pc' = init_except("raised")
          /\ app_log' = "An error occurred"
          /\ UNCHANGED app_newsletters
    /\ UNCHANGED <<app_contents, app_summary>>
    /\ UNCHANGED not_app_vars

\* the loop over newsletters with content_extractor.extract_content
AppExtract ==
    /\ app_pc = "extract"
    /\ app_calls' = app_calls \o
          [i \in 1..Len(app_newsletters) |->
              AppCall("extract_content",
                      extract_content(app_newsletters[i]).subject)]
    /\ app_contents' = newsletter_contents(app_newsletters)
    /\ app_pc' = "analyze"
    /\ UNCHANGED <<app_newsletters, app_summary, app_log>>
    /\ UNCHANGED not_app_vars

\* summary = analyzer.analyze_newsletters(newsletter_contents)
AppAnalyze ==
    /\ app_pc = "analyze"
    /\ \E summary \in Summaries :
         /\ app_summary' = summary
         /\ app_calls' = Append(app_calls,
                                AppCall("analyze_newsletters", summary))
         /\ IF summary # None /\ summary # ""
            THEN app_pc' = "send" /\ app_log' = app_log
            ELSE /\ app_pc' = "returned"
                 /\ app_log' = "Failed to generate summary."
    /\ UNCHANGED <<app_newsletters, app_contents>>
    /\ UNCHANGED not_app_vars

\* email_client.send_email(email_subject, email_body)
AppSend ==
    /\ app_pc = "send"
    /\ \E r \in {"True", "False", "raised"} :
         /\ app_calls' = Append(app_calls, AppCall("send_email", r))
         /\ CASE r = "True"  -> /\ app_pc' = "returned"
                                /\ app_log' = "Summary email sent successfully"
              [] r = "False" -> /\ app_pc' = "returned"
                                /\ app_log' = "Failed to send summary email"
              [] OTHER       -> /\ app_pc' = init_except(r)
                                /\ app_log' = "An error occurred"
    /\ UNCHANGED <<app_newsletters, app_contents, app_summary>>
    /\ UNCHANGED not_app_vars

\* App().init() was just called
AppInit ==
    /\ app_pc = "start"
    /\ app_calls = <<>>
    /\ app_newsletters = <<>>
    /\ app_contents = <<>>
    /\ app_summary = None
    /\ app_log = ""

(***************************************************************************)
(* EmailClient.fetch_newsletters (email_client.py).  self.session is the   *)
(* session of _configure_secure_transport: its adapter sends a request     *)
(* again when the response has a status of status_forcelist.               *)
(***************************************************************************)
\* the statuses the server answers a GET with
Statuses == {200, 401, 403, 503}

\* status_forcelist=[429, 500, 502, 503, 504]
status_forcelist == {429, 500, 502, 503, 504}

\* the requests one session.get can put on the wire, as the statuses of
\* their responses: every response but the last has a status of
\* status_forcelist, and there are at most RetryTotal requests after the
\* first
WireSequences ==
    UNION { { [i \in 1..(k + 1) |-> IF i <= k THEN 503 ELSE final]
              : final \in Statuses }
            : k \in 0..RetryTotal }

\* what session.get gives for the requests w: the last response, or
\* RetryError (0) when the retries are used up on a status of
\* status_forcelist
session_get(w) ==
    IF w[Len(w)] \in status_forcelist THEN 0 ELSE w[Len(w)]

\* the requests w are what the adapter sends: it stops at the first
\* response outside status_forcelist and otherwise when the retries are
\* used up
AdapterSends(w) ==
    w[Len(w)] \in status_forcelist => Len(w) = RetryTotal + 1

\* one entry of the trace of the call
FetchOp(op, result) == [op |-> op, result |-> result]

\* the session.get calls of a trace
GetsOf(trace) == {i \in 1..Len(trace) : trace[i].op = "get"}

\* a client that authenticates and repeats the GET after every 401
after_get_retries_always(trace, st) ==
    IF st = 401 THEN "reauth" ELSE "check"

\* where the call goes after a session.get that returned status st: only
\* the first response is examined for 401
after_get(trace, st) ==
    IF st = 401 /\ Cardinality(GetsOf(trace)) = 1 THEN "reauth" ELSE "check"

\* fetch_newsletters(...) is called on a client whose account holds a valid
\* token or not
FetchCall ==
    /\ fetch_pc = "idle"
    /\ fetch_pc' = "ensure"
    /\ fetch_token_ok' \in BOOLEAN
    /\ UNCHANGED <<fetch_trace, fetch_wire, fetch_response, fetch_result>>
    /\ UNCHANGED not_fetch_vars

\* if not self._ensure_valid_token(): raise RuntimeError(...)
FetchEnsureToken ==
    /\ fetch_pc = "ensure"
    /\ IF fetch_token_ok
       THEN /\ fetch_pc' = "get"
            /\ UNCHANGED <<fetch_token_ok, fetch_trace, fetch_result>>
       ELSE \E ok \in BOOLEAN :
              /\ fetch_trace' = Append(fetch_trace,
                                       FetchOp("authenticate", ok))
              /\ fetch_token_ok' = ok
              /\ IF ok THEN fetch_pc' = "get" /\ UNCHANGED fetch_result
                 ELSE /\ fetch_pc' = "raised"
                      /\ fetch_result' = "RuntimeError"
    /\ UNCHANGED <<fetch_wire, fetch_response>>
    /\ UNCHANGED not_fetch_vars

\* response = self.session.get(endpoint, params=params), the first or the
\* repeated one
FetchGet ==
    /\ fetch_pc = "get"
    /\ \E w \in WireSequences :
         LET st    == session_get(w)
             trace == Append(fetch_trace, FetchOp("get", st))
         IN  /\ AdapterSends(w)
             /\ fetch_wire' = fetch_wire \o w
             /\ fetch_trace' = trace
             /\ IF st = 0
                THEN /\ fetch_pc' = "raised"
                     /\ fetch_result' = "RetryError"
                     /\ UNCHANGED fetch_response
                ELSE /\ fetch_pc' = after_get(trace, st)
                     /\ fetch_response' = st
                     /\ UNCHANGED fetch_result
    /\ UNCHANGED fetch_token_ok
    /\ UNCHANGED not_fetch_vars

\* if self.authenticate(): response = self.session.get(...)
FetchReauth ==
    /\ fetch_pc = "reauth"
    /\ \E ok \in BOOLEAN :
         /\ fetch_trace' = Append(fetch_trace, FetchOp("authenticate", ok))
         /\ fetch_token_ok' = ok
         /\ fetch_pc' = IF ok THEN "get" ELSE "check"
    /\ UNCHANGED <<fetch_wire, fetch_response, fetch_result>>
    /\ UNCHANGED not_fetch_vars

\* response.raise_for_status() and the rest of the call: the list of the
\* newsletters that have a subject and a sender; a body that is not JSON
\* raises ValueError, which is handled by returning the empty list, or by
\* failing in _handle_api_error on an error without a response
FetchCheck ==
    /\ fetch_pc = "check"
    /\ IF fetch_response >= 400
       THEN fetch_pc' = "raised" /\ fetch_result' = "HTTPError"
       ELSE \/ \E n \in 0..MaxNewsletters :
                 fetch_pc' = "returned" /\ fetch_result' = n
            \/ fetch_pc' = "raised" /\ fetch_result' = "AttributeError"
    /\ UNCHANGED <<fetch_token_ok, fetch_trace, fetch_wire, fetch_response>>
    /\ UNCHANGED not_fetch_vars

\* no call of fetch_newsletters yet
FetchInit ==
    /\ fetch_pc = "idle"
    /\ fetch_token_ok = FALSE
    /\ fetch_trace = <<>>
    /\ fetch_wire = <<>>
    /\ fetch_response = 0
    /\ fetch_result = None

(***************************************************************************)
(* FetchEmailTool._run and EmailProcessingTool._run: fetch the raw         *)
(* e-mails, then process them one by one, all inside try/except Exception. *)
(***************************************************************************)
\* the two tools
EmailTools == {"FetchEmailTool", "EmailProcessingTool"}

\* a raw e-mail of the Graph API, reduced to the fields process_email reads
RawEmail(subject, sender, body, received) ==
    [subject |-> subject, sender |-> sender, body |-> body,
     receivedDateTime |-> received]

\* the raw e-mails a fetch can hold: a complete one, one without subject,
\* one whose body has no text, and one whose date does not parse
RawEmails ==
    {RawEmail("AI news", "news@alphasignal.ai", "<p>text</p>",
              "2024-05-01T08:00:00Z"),
     RawEmail("", "news@alphasignal.ai", "<p>text</p>",
              "2024-05-01T08:00:00Z"),
     RawEmail("AI news", "news@alphasignal.ai", "",
              "2024-05-01T08:00:00Z"),
     RawEmail("AI news", "news@alphasignal.ai", "<p>text</p>", "yesterday")}

\* the lists of raw e-mails a fetch can return
RawEmailLists ==
    UNION {[1..n -> RawEmails] : n \in 0..MaxRawEmails}

\* _extract_content: the text of the body
processed_text(body) == IF body = "" THEN "" ELSE "text"

\* _validate_email
validate_email(c) ==
    c.subject # "" /\ c.sender # "" /\ c.processed_text # ""

\* the None that process_email returns
NoEmail == [subject |-> "", sender |-> "", processed_text |-> ""]

\* EmailProcessor.process_email: the content, or None when the date does
\* not parse (the exception is caught) or the content is not valid
process_email(email) ==
    LET c == [subject |-> email.subject, sender |-> email.sender,
              processed_text |-> processed_text(email.body)]
    IN  IF email.receivedDateTime = "yesterday" THEN NoEmail
        ELSE IF validate_email(c) THEN c ELSE NoEmail

\* what one turn of the loop of _run does with the processed e-mail:
\* "append", or the exception it raises.  FetchEmailTool logs a warning for
\* a None e-mail with email.get(...), on the None itself;
\* EmailProcessingTool first hands the e-mail to process_and_store_email,
\* which reads email_content.processed_text, and that call may also fail
\* in the stores.
loop_body(name, email, stored) ==
    IF name = "FetchEmailTool"
    THEN IF email # NoEmail THEN "append" ELSE "AttributeError"
    ELSE IF email = NoEmail THEN "AttributeError"
         ELSE IF ~stored THEN "StorageError"
         ELSE "append"

\* {"error": str(e)}
ToolError(e) == [kind |-> "error", error |-> e, emails |-> <<>>]

\* {"emails": emails} / {"email_summaries": emails_summaries}
ToolEmails(emails) == [kind |-> "emails", error |-> "", emails |-> emails]

\* _run is called: authentication and the fetch of the raw e-mails, either
\* of which may fail
ToolRun ==
    /\ tool_pc = "idle"
    /\ \E name \in EmailTools :
         /\ tool_name' = name
         /\ \/ \E raw \in RawEmailLists :
                 /\ tool_raw' = raw
                 /\ tool_pc' = "loop"
                 /\ tool_i' = 1
                 /\ UNCHANGED tool_result
            \/ \E e \in {"RuntimeError", "HTTPError"} :
                 /\ tool_pc' = "returned"
                 /\ tool_result' = ToolError(e)
                 /\ UNCHANGED <<tool_raw, tool_i>>
    /\ UNCHANGED tool_emails
    /\ UNCHANGED not_tool_vars

\* one turn of `for email in raw_emails`
ToolLoop ==
    /\ tool_pc = "loop"
    /\ tool_i <= Len(tool_raw)
    /\ \E stored \in BOOLEAN :
         LET email == process_email(tool_raw[tool_i])
             did   == loop_body(tool_name, email, stored)
         IN  IF did = "append"
             THEN /\ tool_emails' = Append(tool_emails, email)
                  /\ tool_i' = tool_i + 1
                  /\ UNCHANGED <<tool_pc, tool_result>>
             ELSE /\ tool_pc' = "returned"
                  /\ tool_result' = ToolError(did)
                  /\ UNCHANGED <<tool_emails, tool_i>>
    /\ UNCHANGED <<tool_name, tool_raw>>
    /\ UNCHANGED not_tool_vars

\* the loop is over: return the collected e-mails
ToolReturn ==
    /\ tool_pc = "loop"
    /\ tool_i > Len(tool_raw)
    /\ tool_pc' = "returned"
    /\ tool_result' = ToolEmails(tool_emails)
    /\ UNCHANGED <<tool_name, tool_raw, tool_i, tool_emails>>
    /\ UNCHANGED not_tool_vars

\* no tool call yet
ToolInit ==
    /\ tool_pc = "idle"
    /\ tool_name = ""
    /\ tool_raw = <<>>
    /\ tool_i = 0
    /\ tool_emails = <<>>
    /\ tool_result = [kind |-> "none", error |-> "", emails |-> <<>>]

(***************************************************************************)
(* EmailMetadataStore (email_metadata_store.py): the table email_metadata  *)
(* with primary key email_id.  A commit may fail; the handler then rolls   *)
(* back and raises again.                                                  *)
(***************************************************************************)
\* the e-mail ids in use
EmailIds == 1..MaxEmailIds

\* EmailMetadata(email_id=..., num_chunks=..., timestamp=...)
EmailMetadata(id, n, t) == [email_id |-> id, num_chunks |-> n, timestamp |-> t]

\* the metadata a caller of the store writes
Metadatas ==
    {EmailMetadata(id, n, t) : id \in EmailIds, n \in 0..MaxChunks, t \in {7}}

\* no row in the table / get_metadata returned None
NoRow == [email_id |-> 0]
NoMetadata == [email_id |-> 0]

\* datetime.isoformat and its inverse in the constructor of EmailMetadata
isoformat(t) == <<"iso", t>>
fromisoformat(x) == x[2]

\* EmailMetadata.to_dict: the fields as JSON values
to_dict(m) ==
    [email_id |-> m.email_id, num_chunks |-> m.num_chunks,
     timestamp |-> isoformat(m.timestamp)]

\* EmailMetadata(**additional_metadata)
from_dict(x) ==
    EmailMetadata(x.email_id, x.num_chunks, fromisoformat(x.timestamp))

\* EmailMetadataModel(...): the row of metadata m
Row(m) ==
    [email_id |-> m.email_id, num_chunks |-> m.num_chunks,
     timestamp |-> m.timestamp, additional_metadata |-> to_dict(m)]

\* store_metadata on table d: add the row and commit; a row with the same
\* primary key, or a commit that fails (~ok), raises and leaves d as it was
store_metadata(d, m, ok) ==
    IF d[m.email_id] # NoRow \/ ~ok
    THEN [db |-> d, raised |-> TRUE]
    ELSE [db |-> [d EXCEPT ![m.email_id] = Row(m)], raised |-> FALSE]

\* an update that does nothing when the row does not exist
update_metadata_no_insert(d, m, ok) ==
    IF d[m.email_id] # NoRow
    THEN IF ok THEN [db |-> [d EXCEPT ![m.email_id] = Row(m)],
                     raised |-> FALSE]
         ELSE [db |-> d, raised |-> TRUE]
    ELSE [db |-> d, raised |-> FALSE]

\* an update that sets the columns and leaves additional_metadata as it was
update_metadata_columns_only(d, m, ok) ==
    IF d[m.email_id] # NoRow
    THEN IF ok
         THEN [db |-> [d EXCEPT ![m.email_id] =
                          [Row(m) EXCEPT !.additional_metadata =
                              d[m.email_id].additional_metadata]],
               raised |-> FALSE]
         ELSE [db |-> d, raised |-> TRUE]
    ELSE store_metadata(d, m, ok)

\* update_metadata on table d: overwrite the row if there is one, else
\* store_metadata
update_metadata(d, m, ok) ==
    IF d[m.email_id] # NoRow
    THEN IF ok THEN [db |-> [d EXCEPT ![m.email_id] = Row(m)],
                     raised |-> FALSE]
         ELSE [db |-> d, raised |-> TRUE]
    ELSE store_metadata(d, m, ok)

\* get_metadata on table d
get_metadata(d, id) ==
    IF d[id] # NoRow THEN from_dict(d[id].additional_metadata)
    ELSE NoMetadata

\* a call op of the store with metadata m came back as r: the table, the
\* last successful write of the id and the record of the call
StoreCalled(op, m, ok, r) ==
    /\ db' = r.db
    /\ written' = IF r.raised THEN written
                  ELSE [written EXCEPT ![m.email_id] = m]
    /\ store_last' = [op |-> op, metadata |-> m, committed |-> ok,
                      existed |-> db[m.email_id] # NoRow,
                      raised |-> r.raised]

\* a caller calls store_metadata(m)
StoreMetadata ==
    /\ \E m \in Metadatas, ok \in BOOLEAN :
         StoreCalled("store_metadata", m, ok, store_metadata(db, m, ok))
    /\ UNCHANGED <<vectors, ps>>
    /\ UNCHANGED not_store_vars

\* a caller calls update_metadata(m)
UpdateMetadata ==
    /\ \E m \in Metadatas, ok \in BOOLEAN :
         StoreCalled("update_metadata", m, ok, update_metadata(db, m, ok))
    /\ UNCHANGED <<vectors, ps>>
    /\ UNCHANGED not_store_vars

(***************************************************************************)
(* EmailStorageManager.process_and_store_email (email_storage_manager.py). *)
(***************************************************************************)
\* _store_chunks: one document per chunk, with the chunk's index, the number
\* of chunks and the metadata of the e-mail
documents(n, m) ==
    [i \in 1..n |-> [chunk_index |-> i - 1, total_chunks |-> n,
                     email_id |-> to_dict(m).email_id]]

\* one write of the trace of the call
PsWrite(op, ok) == [op |-> op, ok |-> ok]

\* process_and_store_email(email_content) is called: a new email_id, the
\* headlines, and the metadata with num_chunks = 0; the text of the e-mail
\* makes n chunks
PsCall ==
    /\ ps.pc \in {"idle", "returned", "raised"}
    /\ ps.calls < MaxEmailIds
    /\ \E n \in 0..MaxChunks :
         ps' = [pc |-> "store", calls |-> ps.calls + 1,
                email_id |-> ps.calls + 1, chunks |-> n,
                metadata |-> EmailMetadata(ps.calls + 1, 0, 7),
                trace |-> <<>>]
    /\ UNCHANGED <<db, vectors, written, store_last>>
    /\ UNCHANGED not_store_vars

\* self.metadata_store.store_metadata(metadata)
PsStore ==
    /\ ps.pc = "store"
    /\ \E ok \in BOOLEAN :
         LET r == store_metadata(db, ps.metadata, ok)
         IN  /\ StoreCalled("store_metadata", ps.metadata, ok, r)
             /\ ps' = [ps EXCEPT
                         !.pc = IF r.raised THEN "raised" ELSE "chunks",
                         !.trace = Append(@, PsWrite("store_metadata",
                                                     ~r.raised))]
    /\ UNCHANGED vectors
    /\ UNCHANGED not_store_vars

\* chunks = self._create_chunks(...); self._store_chunks(chunks, metadata):
\* add_documents adds the documents, or raises after it added some of them
PsChunks ==
    /\ ps.pc = "chunks"
    /\ LET docs == documents(ps.chunks, ps.metadata)
       IN  \/ /\ vectors' = vectors \o docs
              /\ ps' = [ps EXCEPT
                          !.pc = "update",
                          !.trace = Append(@, PsWrite("add_documents", TRUE))]
           \/ \E k \in 0..Len(docs) :
                /\ k < Len(docs) \/ docs = <<>>
                /\ vectors' = vectors \o SubSeq(docs, 1, k)
                /\ ps' = [ps EXCEPT
                            !.pc = "raised",
                            !.trace = Append(@, PsWrite("add_documents",
                                                        FALSE))]
    /\ UNCHANGED <<db, written, store_last>>
    /\ UNCHANGED not_store_vars

\* metadata.num_chunks = len(chunks); self.metadata_store.update_metadata(
\* metadata); return metadata
PsUpdate ==
    /\ ps.pc = "update"
    /\ \E ok \in BOOLEAN :
         LET m == [ps.metadata EXCEPT !.num_chunks = ps.chunks]
             r == update_metadata(db, m, ok)
         IN  /\ StoreCalled("update_metadata", m, ok, r)
             /\ ps' = [ps EXCEPT
                         !.pc = IF r.raised THEN "raised" ELSE "returned",
                         !.metadata = m,
                         !.trace = Append(@, PsWrite("update_metadata",
                                                     ~r.raised))]
    /\ UNCHANGED vectors
    /\ UNCHANGED not_store_vars

\* an empty table, an empty vector store, no call yet
StoreInit ==
    /\ db = [id \in EmailIds |-> NoRow]
    /\ vectors = <<>>
    /\ written = [id \in EmailIds |-> NoMetadata]
    /\ store_last = [op |-> "none"]
    /\ ps = [pc |-> "idle", calls |-> 0, email_id |-> 0, chunks |-> 0,
             metadata |-> NoMetadata, trace |-> <<>>]

(***************************************************************************)
(* EmailSendingTool._run (email_sending_tool.py).  send_trace lists what   *)
(* the calls did: authenticate() with its value, the POST with the status  *)
(* of its response, and how the call ended.                                *)
(***************************************************************************)
\* the POST got no response: session.post raised
NoResponse == 0

\* what session.post(endpoint, json=email_body) comes back with
PostReplies == {202, 401, 503, NoResponse}

\* the number of calls of _run so far
SendCalls ==
    Cardinality({i \in 1..Len(send_trace) :
                    send_trace[i].op = "authenticate"})

\* response.raise_for_status() raises
raise_for_status(code) == code >= 400

\* a tool that goes on to the POST whatever authenticate() returned
send_after_auth_always_posts(ok) == "post"

\* if not self.authenticator.authenticate(): return "Authentication failed."
send_after_auth(ok) == IF ok THEN "post" ELSE "returned"

\* _run(subject, body, recipient) is called: authenticate() returns ok
SendRun ==
    /\ send_pc \in {"idle", "returned", "raised"}
    /\ SendCalls < MaxSendCalls
    /\ \E ok \in BOOLEAN :
         LET c == SendCalls + 1
             auth == [call |-> c, op |-> "authenticate", value |-> ok]
         IN  /\ send_pc' = send_after_auth(ok)
             /\ send_result' = IF ok THEN "" ELSE "Authentication failed."
             /\ send_trace' =
                  IF send_after_auth(ok) = "returned"
                  THEN send_trace \o
                         <<auth, [call |-> c, op |-> "return",
                                  text |-> "Authentication failed."]>>
                  ELSE Append(send_trace, auth)
    /\ UNCHANGED not_send_vars

\* response = self.authenticator.session.post(...);
\* response.raise_for_status(); return "Successfully sent email."
SendPost ==
    /\ send_pc = "post"
    /\ \E code \in PostReplies :
         LET c == SendCalls
             post == [call |-> c, op |-> "post", status |-> code]
         IN  IF code = NoResponse \/ raise_for_status(code)
             THEN /\ send_pc' = "raised"
                  /\ send_result' = IF code = NoResponse
                                    THEN "ConnectionError" ELSE "HTTPError"
                  /\ send_trace' = send_trace \o
                        <<post, [call |-> c, op |-> "raise",
                                 text |-> send_result']>>
             ELSE /\ send_pc' = "returned"
                  /\ send_result' = "Successfully sent email."
                  /\ send_trace' = send_trace \o
                        <<post, [call |-> c, op |-> "return",
                                 text |-> send_result']>>
    /\ UNCHANGED not_send_vars

\* the tool before its first call
SendInit ==
    /\ send_pc = "idle"
    /\ send_trace = <<>>
    /\ send_result = ""

\* the components besides the two agents before they are used
AuxInit ==
    ChatInit /\ AppInit /\ FetchInit /\ ToolInit /\ StoreInit /\ SendInit

\* the orchestrator before any run: the clock at 0, an empty MemorySaver, no
\* run started
OrchInit ==
    /\ now = 0
    /\ memory = [t \in ThreadIds |-> <<>>]
    /\ run_thread = [r \in Runs |-> NoThread]
    /\ run_phase = [r \in Runs |-> "idle"]
    /\ run_messages = [r \in Runs |-> <<>>]

\* the state run() starts the graph in: app.invoke({"input": message},
\* config) with only the input written and the limit of config; session
\* tells whether the e-mail dependency can establish a session
InitWith(lim, stub, session) ==
    /\ OrchInit
    /\ AuxInit
    /\ auth_ok = session
    /\ input = Objective
    /\ plan = <<>>
    /\ past_steps = <<>>
    /\ current_step = 0
    /\ response = Unset
    /\ node = "planner"
    /\ step = 0
    /\ limit = lim
    /\ status = "pending"
    /\ error = "none"
    /\ task = <<>>
    /\ last = [node |-> "__start__", output |-> [kind |-> "none"],
               raised |-> FALSE]
    /\ replans = 0
    /\ oracle = stub

Init == InitWith(recursion_limit, "any", TRUE)

Next == PlanStep \/ ExecuteStep \/ RePlanStep

Spec == Init /\ [][Next]_vars

\* what run() hands its caller: the value app.invoke returns, which is the
\* final state dictionary, or the exception that leaves app.invoke
run_result ==
    CASE status = "done"   -> [kind |-> "returned", value |-> State]
      [] status = "failed" -> [kind |-> "raised", exception |-> error]
      [] OTHER             -> [kind |-> "running"]

\* the run with the limit set to 3 and a re-planner stub that always revises
\* with a fresh non-empty plan
SpecCap3 == InitWith(3, "always_revise", TRUE) /\ [][Next]_vars

\* runs of the orchestrator, started at any time and interleaved
NextOrch ==
    \/ Tick
    \/ \E r \in Runs : OrchRun(r)
    \/ \E r \in Runs : CallModel(r)
    \/ \E r \in Runs : ToolNode(r)

SpecOrch == Init /\ [][NextOrch]_vars

\* requests to POST /chat next to direct runs of the orchestrator
NextChat ==
    \/ Tick
    \/ \E r \in Runs : OrchRun(r)
    \/ \E r \in Runs : CallModel(r)
    \/ \E r \in Runs : ToolNode(r)
    \/ \E r \in Runs, m \in ChatMessages : Chat(r, m)

SpecChat == Init /\ [][NextChat]_vars

\* one call of App.init
NextApp ==
    AppAuthenticate \/ AppFetch \/ AppExtract \/ AppAnalyze \/ AppSend

SpecApp == Init /\ [][NextApp]_vars

\* one call of EmailClient.fetch_newsletters
NextFetch ==
    FetchCall \/ FetchEnsureToken \/ FetchGet \/ FetchReauth \/ FetchCheck

SpecFetch == Init /\ [][NextFetch]_vars

\* calls of store_metadata and update_metadata, in any order
NextStore == StoreMetadata \/ UpdateMetadata

SpecStore == Init /\ [][NextStore]_vars

\* calls of process_and_store_email, one after the other
NextStorage == PsCall \/ PsStore \/ PsChunks \/ PsUpdate

SpecStorage == Init /\ [][NextStorage]_vars

\* calls of EmailSendingTool._run, one after the other
NextSend == SendRun \/ SendPost

SpecSend == Init /\ [][NextSend]_vars

\* one call of FetchEmailTool._run or EmailProcessingTool._run
NextTool == ToolRun \/ ToolLoop \/ ToolReturn

SpecTool == Init /\ [][NextTool]_vars

\* the run when the e-mail dependency cannot establish a session
SpecNoSession == InitWith(recursion_limit, "any", FALSE) /\ [][Next]_vars

\* the run is one thread of control: a pending run takes its next super-step
LiveSpec == Spec /\ WF_vars(Next)

(***************************************************************************)
(* Observations used by the properties.                                    *)
(***************************************************************************)
\* the last super-step was node n and it committed
Committed(n) == last.node = n /\ ~last.raised

\* the re-planner just returned Revise(new_plan) with a non-empty plan
JustRevised ==
    Committed("re_plan") /\ last.output.kind = "Plan" /\ last.output.steps # <<>>

\* the re-planner just returned Respond(text)
JustResponded == Committed("re_plan") /\ last.output.kind = "Response"

\* the run failed with exception exc
FailedWith(exc) == status = "failed" /\ error = exc

IsPrefix(s, t) == Len(s) <= Len(t) /\ SubSeq(t, 1, Len(s)) = s

\* positions of the oracle turns / of the tool results of a history
AIPositions(h) == {i \in 1..Len(h) : h[i].type = "ai"}
ToolPositions(h) == {i \in 1..Len(h) : h[i].type = "tool"}

\* every oracle turn of h is directly followed by one tool result per tool
\* call, in call order and with the call's identifier, and then by the next
\* oracle turn or the end of h; no identifier has two results
WellPaired(h) ==
    /\ h # <<>> => h[1].type = "ai"
    /\ \A a \in AIPositions(h) :
         LET k == Len(h[a].tool_calls)
         IN  /\ a + k <= Len(h)
             /\ \A j \in 1..k :
                  /\ h[a + j].type = "tool"
                  /\ h[a + j].tool_call_id = h[a].tool_calls[j].id
                  /\ h[a + j].name = h[a].tool_calls[j].name
                  /\ Cardinality({p \in ToolPositions(h) :
                        h[p].tool_call_id = h[a].tool_calls[j].id}) = 1
             /\ a + k < Len(h) => h[a + k + 1].type = "ai"

(***************************************************************************)
(* The properties.                                                         *)
(***************************************************************************)
\* C1: whenever the re-planner returns Revise(new_plan) with a non-empty
\* plan, the new plan is installed and the executor is entered with the step
\* cursor at 0, so that the next step run is new_plan[0].
C1_ReviseRestartsCursor ==
    JustRevised =>
        /\ plan = last.output.steps
        /\ node = "agent"
        /\ current_step = 0

\* C2: a tool invocation that raises in the executor step does not end the
\* run: the run never fails with the tool's exception.
C2_ToolErrorNotPropagated == ~FailedWith("ToolException")

\* C3: a tool name that is not in the registry does not abort the run: the
\* run never fails with the failed registry lookup.
C3_UnknownToolNotFatal == ~FailedWith("KeyError")

\* C4: in every reachable history each tool call of an oracle turn is
\* followed, directly after the turn and in call order, by exactly one tool
\* result with the same call identifier, before any later oracle turn; the
\* history an oracle turn is issued on therefore has every earlier call
\* resolved.
C4_ToolCallsResolved == WellPaired(past_steps)

C4_Witness ==
    \E a \in AIPositions(past_steps) :
        /\ Len(past_steps[a].tool_calls) = 2
        /\ a + 3 <= Len(past_steps)
        /\ past_steps[a + 3].type = "ai"

\* C5: every executor step that completes advances the step cursor by
\* exactly 1, whatever the number of tool calls of the oracle's turn.
C5_CursorAdvancesByOne ==
    [][(step' = step + 1 /\ last'.node = "agent")
          => current_step' = current_step + 1]_vars

C5_Witness ==
    /\ Committed("agent")
    /\ Len(last.output.tool_calls) = 2
    /\ \E a \in AIPositions(past_steps) : past_steps[a].tool_calls = <<>>
    /\ current_step = Cardinality(AIPositions(past_steps))
    /\ current_step >= 2

\* C6: the history is append-only: across every transition the previous
\* history is a prefix of the new one.
C6_HistoryAppendOnly == [][IsPrefix(past_steps, past_steps')]_vars

C6_Witness ==
    /\ Committed("re_plan")
    /\ replans >= 2
    /\ Len(past_steps) >= 4

\* C7: every run terminates: it never performs more super-steps than the
\* limit (20), a run that used the limit up is done or has failed with the
\* recursion error, and every run eventually stops.
C7_RunTerminates ==
    /\ [](step <= recursion_limit)
    /\ [](step = recursion_limit =>
            status = "done" \/ FailedWith("GraphRecursionError"))
    /\ <>(status \in {"done", "failed"})

C7_Witness ==
    /\ FailedWith("GraphRecursionError")
    /\ step = recursion_limit
    /\ replans >= 9

\* C8: whenever the re-planner returns Respond(text), for every text, the
\* run is DONE carrying that text and no executor step follows.
C8_RespondEndsRun ==
    JustResponded =>
        /\ status = "done"
        /\ node = END
        /\ response = last.output.response

\* C9: an empty plan of the planner is rejected before the executor is
\* entered: the run fails at once with the schema-mismatch error.
C9_EmptyPlanRejected ==
    (last.node = "planner" /\ last.output.kind = "Plan"
        /\ last.output.steps = <<>>)
    => FailedWith("OutputParserException")

\* C10 as stated: with the limit 3 and a re-planner that always revises, the
\* run fails with the recursion error exactly at the 3rd re-plan transition.
C10_FailsAtThirdReplan ==
    FailedWith("GraphRecursionError") => replans = 3

\* C10 as amended: with the limit 3 and a re-planner that always revises, the
\* run fails with the recursion error exactly when its 3rd super-step
\* (planner, executor and re-planner steps counted together) completes, not
\* earlier and not later, and by then at most one re-plan has happened.
C10_FailsAtThirdStep ==
    /\ limit = 3
    /\ step <= 3
    /\ FailedWith("GraphRecursionError") <=> step = 3
    /\ replans <= 1

C10_Witness ==
    /\ limit = 3
    /\ FailedWith("GraphRecursionError")
    /\ JustRevised
    /\ replans = 1

\* C11: the response is set at most once and only by the re-planner, and
\* once it is set the loop performs no further transition.
C11_ResponseIsFinal ==
    response # Unset =>
        /\ last.node = "re_plan"
        /\ replans >= 1
        /\ status # "pending"

\* C12: when the planner returned N >= 1 steps and the re-planner responds r
\* on its first invocation, the run took one planner step, N executor steps
\* and one re-plan step and is DONE with response r.
C12_FirstRespondEndsRun ==
    (JustResponded /\ replans = 1) =>
        /\ Len(plan) >= 1
        /\ current_step = Len(plan)
        /\ step = Len(plan) + 2
        /\ status = "done"
        /\ response = last.output.response

\* C13: after an executor step the loop routes to the executor if and only
\* if the cursor is below the length of the plan and to the re-planner if and
\* only if it is not; the re-planner is never entered with the cursor below
\* the length of the plan.
C13_RoutingAfterExecute ==
    /\ Committed("agent") =>
          /\ node = "agent" <=> current_step < Len(plan)
          /\ node = "re_plan" <=> current_step >= Len(plan)
    /\ node = "re_plan" => current_step >= Len(plan)

C13_Witness ==
    /\ Committed("agent")
    /\ status = "pending"
    /\ node = "re_plan"
    /\ replans >= 1
    /\ Len(plan) >= 2

\* C14: a plan update is total: after a Revise the plan is exactly the step
\* list the re-planner returned, and the plan changes only in a planner or
\* re-planner step, never in an executor step.
C14_PlanReplacedWholesale ==
    [][/\ (step' = step + 1 /\ last'.node \in {"planner", "re_plan"}
             /\ last'.output.kind = "Plan") => plan' = last'.output.steps
       /\ plan' # plan => (step' = step + 1
                             /\ last'.node \in {"planner", "re_plan"})]_vars

C14_Witness ==
    /\ JustRevised
    /\ replans >= 2
    /\ Len(plan) >= 3
    /\ plan = last.output.steps

\* C15: run() always returns a structured result, {response} or {error}: no
\* failure inside the run leaves run() as a raised exception.
C15_RunReturnsStructured ==
    status # "pending" =>
        /\ run_result.kind = "returned"
        /\ DOMAIN run_result.value \in {{"response"}, {"error"}}

\* C16: a decoding failure of the planner's or re-planner's structured output
\* is fatal: the node is not run again, no further step is taken and the
\* exception reaches the caller of run().
C16_ParseFailureIsFatal ==
    (last.raised /\ last.node \in {"planner", "re_plan"}) =>
        /\ last.output.kind = "SchemaMismatch"
        /\ FailedWith("OutputParserException")
        /\ run_result = [kind |-> "raised",
                         exception |-> "OutputParserException"]
        /\ ~ENABLED Next

C16_Witness ==
    /\ last.raised
    /\ last.node = "re_plan"
    /\ FailedWith("OutputParserException")
    /\ past_steps # <<>>

\* C18: the objective is the string passed to run() in every reachable
\* state, and no step changes it.
C18_ObjectiveNeverChanges ==
    /\ [](input = Objective)
    /\ [][input' = input]_vars

C18_Witness ==
    /\ status = "done"
    /\ replans >= 2
    /\ input = Objective

\* C19: without an authenticated session the run is aborted before planning
\* begins: no planner, executor or re-planner step is taken and no tool is
\* invoked.
C19_NoRunWithoutSession ==
    ~auth_ok =>
        /\ step = 0
        /\ last.node = "__start__"
        /\ NumToolMsgs(past_steps) = 0

\* C20: concurrent runs are isolated: the runs have pairwise distinct
\* thread ids, and the state of a run holds no message of another run,
\* whenever the runs are started.
C20_RunsIsolated ==
    /\ \A r1, r2 \in Runs :
         (r1 # r2 /\ run_thread[r1] # NoThread /\ run_thread[r2] # NoThread)
           => run_thread[r1] # run_thread[r2]
    /\ \A r \in Runs : \A i \in 1..Len(run_messages[r]) :
         run_messages[r][i].run = r

\* C21: when the recursion limit is reached, the failure handed to the
\* caller of run() carries the history accumulated so far: the messages of
\* the executor steps that completed.
C21_BudgetErrorCarriesHistory ==
    FailedWith("GraphRecursionError") =>
        /\ "past_steps" \in DOMAIN run_result
        /\ run_result.past_steps = past_steps

\* C22: POST /chat answers {error: ...} only when the agent run of the
\* request raised: a request is never answered with an error while its agent
\* run did not fail.
C22_ChatErrorOnlyWhenRunRaises ==
    \A r \in Runs :
        chat_result(r).kind = "error" => run_phase[r] = "failed"

\* C23: whenever the executor is entered, the step cursor is a valid index
\* into the current plan, 0 <= current_step < len(plan), on every path into
\* the executor: from the planner, from an executor step and from the
\* re-planner.
C23_CursorValidOnEntry ==
    (status = "pending" /\ node = "agent") =>
        /\ 0 <= current_step
        /\ current_step < Len(plan)

\* C24: between the installation of a plan and the next re-plan the executor
\* is handed every step of the plan once and in plan order: the first
\* executor step after the installation is handed plan[0], every further one
\* the step after the one handed before, and the re-planner is entered after
\* the last step of the plan was handed.
C24_PlanStepsOnceInOrder ==
    [][(step' = step + 1 /\ last'.node = "agent") =>
         /\ (Committed("planner") \/ JustRevised) => task' = plan[1]
         /\ Committed("agent") =>
                /\ task = plan[current_step]
                /\ task' = plan[current_step + 1]
         /\ node' = "re_plan" => task' = plan[Len(plan)]]_vars

\* C25: each node writes only its own channels: a planner step changes only
\* the plan; an executor step extends the history and moves the cursor and
\* leaves the plan and the response alone; a re-planner step writes exactly
\* one of plan and response, the one its output names, and leaves the
\* history and the cursor alone.  No step changes the objective.
C25_NodesWriteOwnChannels ==
    [][step' = step + 1 =>
         /\ input' = input
         /\ last'.node = "planner" =>
                /\ plan' = last'.output.steps
                /\ UNCHANGED <<past_steps, current_step, response>>
         /\ last'.node = "agent" =>
                /\ UNCHANGED <<plan, response>>
                /\ past_steps' =
                      past_steps \o <<last'.output>>
                                 \o tool_outputs(last'.output.tool_calls)
                /\ current_step' = current_step + 1
         /\ last'.node = "re_plan" =>
                /\ UNCHANGED <<past_steps, current_step>>
                /\ last'.output.kind = "Plan" =>
                       plan' = last'.output.steps /\ response' = response
                /\ last'.output.kind = "Response" =>
                       response' = last'.output.response /\ plan' = plan]_vars

C25_Witness ==
    /\ JustResponded
    /\ status = "done"
    /\ replans >= 2
    /\ NumToolMsgs(past_steps) >= 1

\* the last message of a message list
LastMessage(msgs) == msgs[Len(msgs)].msg

\* run r took a step of node n of its graph (the step may have raised)
ReactStep(r, n) == run_phase[r] = n /\ run_phase'[r] # n

\* C26: the ReActAgent loop alternates model and tools: a model turn
\* appends the model's message and is followed by the tools node if and only
\* if that message carries a tool call, and by the end of the run otherwise;
\* a tools node that returns is followed by the model; a run that has ended
\* has a model message without tool calls as the last message of its state.
C26_ModelToolsAlternate ==
    /\ [](\A r \in Runs :
            /\ run_phase[r] = "tools" =>
                   /\ LastMessage(run_messages[r]).type = "ai"
                   /\ LastMessage(run_messages[r]).tool_calls # <<>>
            /\ run_phase[r] = "done" =>
                   /\ run_messages[r][Len(run_messages[r])].run = r
                   /\ LastMessage(run_messages[r]).type = "ai"
                   /\ LastMessage(run_messages[r]).tool_calls = <<>>)
    /\ [][\A r \in Runs :
            /\ ReactStep(r, "model") =>
                   /\ Len(run_messages'[r]) = Len(run_messages[r]) + 1
                   /\ LastMessage(run_messages'[r]).type = "ai"
                   /\ run_phase'[r] = "tools" <=>
                          LastMessage(run_messages'[r]).tool_calls # <<>>
                   /\ run_phase'[r] = "done" <=>
                          LastMessage(run_messages'[r]).tool_calls = <<>>
            /\ (ReactStep(r, "tools") /\ run_phase'[r] # "failed") =>
                   run_phase'[r] = "model"
            /\ run_phase'[r] = "done" => run_phase[r] \in {"model", "done"}
          ]_vars

C26_Witness ==
    \E r \in Runs :
        /\ run_phase[r] = "done"
        /\ \E i \in 1..Len(run_messages[r]) :
             run_messages[r][i].run = r /\ run_messages[r][i].msg.type = "tool"

\* every tool call of the last model message of msgs has a result after it
LastTurnResolved(msgs) ==
    LET ais == {i \in 1..Len(msgs) : msgs[i].msg.type = "ai"}
    IN  ais # {} =>
          LET a == CHOOSE i \in ais : \A j \in ais : j <= i
          IN  \A c \in 1..Len(msgs[a].msg.tool_calls) :
                \E q \in (a + 1)..Len(msgs) :
                    /\ msgs[q].msg.type = "tool"
                    /\ msgs[q].msg.tool_call_id = msgs[a].msg.tool_calls[c].id

\* C27: a tools node that returns appends one tool result per tool call of
\* the last model message, in call order and with the call's name and
\* identifier, and nothing else; and the model is never called on a message
\* list in which a tool call of the last model message has no result.
C27_ToolResultsPerCall ==
    /\ [](\A r \in Runs :
            run_phase[r] = "model" => LastTurnResolved(run_messages[r]))
    /\ [][\A r \in Runs :
            (ReactStep(r, "tools") /\ run_phase'[r] # "failed") =>
               LET old   == run_messages[r]
                   new   == run_messages'[r]
                   calls == LastMessage(old).tool_calls
               IN  /\ Len(new) = Len(old) + Len(calls)
                   /\ SubSeq(new, 1, Len(old)) = old
                   /\ \A j \in 1..Len(calls) :
                        /\ new[Len(old) + j].run = r
                        /\ new[Len(old) + j].msg.type = "tool"
                        /\ new[Len(old) + j].msg.name = calls[j].name
                        /\ new[Len(old) + j].msg.tool_call_id = calls[j].id
          ]_vars

\* the positions of app_calls that are calls of name
CallsOf(name) == {i \in 1..Len(app_calls) : app_calls[i].call = name}

\* C28: in App.init the stages are ordered and gated: newsletters are
\* fetched only after authenticate returned true; extraction and analysis
\* happen only after a fetch that returned at least one newsletter, every
\* newsletter being extracted before the one analysis; send_email is called
\* at most once and only after the analysis returned a non-empty summary;
\* and init never raises, whatever stage fails.
C28_PipelineGated ==
    /\ app_pc # "raised"
    /\ Cardinality(CallsOf("authenticate")) <= 1
    /\ Cardinality(CallsOf("fetch_newsletters")) <= 1
    /\ Cardinality(CallsOf("analyze_newsletters")) <= 1
    /\ Cardinality(CallsOf("send_email")) <= 1
    /\ \A i \in CallsOf("fetch_newsletters") :
         i = 2 /\ app_calls[1] = AppCall("authenticate", "True")
    /\ \A i \in CallsOf("extract_content") \cup CallsOf("analyze_newsletters") :
         /\ i > 2
         /\ app_calls[2].call = "fetch_newsletters"
         /\ app_calls[2].result >= 1
    /\ \A i \in CallsOf("extract_content"), j \in CallsOf("analyze_newsletters") :
         i < j
    /\ \A j \in CallsOf("analyze_newsletters") :
         Cardinality(CallsOf("extract_content")) = app_calls[2].result
    /\ \A i \in CallsOf("send_email") :
         /\ i = Len(app_calls)
         /\ app_calls[i - 1].call = "analyze_newsletters"
         /\ app_calls[i - 1].result \notin {None, ""}

C28_Witness ==
    /\ app_pc = "returned"
    /\ app_log = "An error occurred"
    /\ CallsOf("send_email") # {}
    /\ Len(app_newsletters) >= 2
    /\ Len(app_contents) < Len(app_newsletters)

\* the authenticate calls of the trace that follow a session.get
ReauthsOf(trace) ==
    {i \in 2..Len(trace) :
        trace[i].op = "authenticate" /\ trace[i - 1].op = "get"}

\* the call is over
FetchOver == fetch_pc \in {"returned", "raised"}

\* C29 as stated: fetch_newsletters re-authenticates at most once, after a
\* 401 on the first GET, and repeats the GET only if that succeeded; no
\* call issues more than two GET requests; and a non-success status of the
\* last response is raised, not returned as a list.
C29_AtMostTwoGetRequests ==
    /\ Cardinality(ReauthsOf(fetch_trace)) <= 1
    /\ Len(fetch_wire) <= 2
    /\ (FetchOver /\ fetch_wire # <<>>
          /\ fetch_wire[Len(fetch_wire)] >= 400) => fetch_pc = "raised"

\* C29 as amended: fetch_newsletters calls session.get at most twice, the
\* second time only directly after a re-authentication that succeeded,
\* which itself directly follows a 401 returned by the first session.get;
\* it re-authenticates at most once; every session.get sends at most
\* RetryTotal + 1 requests, all but the last answered with a status of
\* status_forcelist; and a call whose last response has a non-success
\* status raises instead of returning a list.
C29_AtMostTwoGetCalls ==
    LET gets == GetsOf(fetch_trace)
    IN  /\ Cardinality(gets) <= 2
        /\ Cardinality(ReauthsOf(fetch_trace)) <= 1
        /\ \A i \in ReauthsOf(fetch_trace) :
             /\ fetch_trace[i - 1].result = 401
             /\ \A j \in gets : j >= i - 1
        /\ \A i, j \in gets :
             i < j => /\ j = i + 2
                      /\ fetch_trace[i].result = 401
                      /\ fetch_trace[i + 1] = FetchOp("authenticate", TRUE)
        /\ Len(fetch_wire) <= Cardinality(gets) * (RetryTotal + 1)
        /\ (FetchOver /\ fetch_wire # <<>>
              /\ fetch_wire[Len(fetch_wire)] >= 400) => fetch_pc = "raised"
        /\ fetch_pc = "returned" =>
              /\ fetch_result \in 0..MaxNewsletters
              /\ fetch_response = fetch_wire[Len(fetch_wire)]
              /\ fetch_response < 400

C29_Witness ==
    /\ fetch_pc = "returned"
    /\ Cardinality(GetsOf(fetch_trace)) = 2
    /\ Len(fetch_wire) > 2
    /\ fetch_result >= 1

\* the raw e-mails of a list that pass process_email, processed
Processed(raw) ==
    LET all == [i \in 1..Len(raw) |-> process_email(raw[i])]
        Passed(c) == c # NoEmail
    IN  SelectSeq(all, Passed)

\* C30: a raw e-mail for which process_email returns None is skipped and
\* the remaining e-mails are still processed: a tool call that fetched its
\* raw e-mails and did not fail in the stores returns the list of exactly
\* the e-mails that passed, never an error.
C30_InvalidEmailsSkipped ==
    (tool_pc = "returned"
        /\ tool_result.error \notin {"RuntimeError", "HTTPError",
                                     "StorageError"}) =>
        /\ tool_result.kind = "emails"
        /\ tool_result.emails = Processed(tool_raw)

\* the order of the writes of process_and_store_email
PsOrder == <<"store_metadata", "add_documents", "update_metadata">>

\* the number of chunk documents in the vector store for the e-mail id
ChunksOf(id) ==
    Cardinality({i \in 1..Len(vectors) : vectors[i].email_id = id})

\* C31: process_and_store_email writes in the order store_metadata, add the
\* chunks to the vector store, update_metadata; a write that fails is the
\* last one and the call raises; and when the call returns, the metadata
\* stored under the new email_id has num_chunks equal to the number of chunk
\* documents added to the vector store for that email_id.
C31_StoresInOrderAndCountsChunks ==
    /\ Len(ps.trace) <= Len(PsOrder)
    /\ \A i \in 1..Len(ps.trace) :
         /\ ps.trace[i].op = PsOrder[i]
         /\ ~ps.trace[i].ok => i = Len(ps.trace) /\ ps.pc = "raised"
    /\ ps.pc = "returned" =>
         /\ Len(ps.trace) = Len(PsOrder)
         /\ get_metadata(db, ps.email_id) # NoMetadata
         /\ get_metadata(db, ps.email_id).num_chunks = ChunksOf(ps.email_id)
         /\ ChunksOf(ps.email_id) = ps.chunks

\* a call that stored an e-mail of at least one chunk and returned
C31_Witness ==
    /\ ps.pc = "returned"
    /\ ps.chunks > 0
    /\ ChunksOf(ps.email_id) = ps.chunks

\* C32: the metadata store is a map on email_id: get_metadata(id) returns
\* the value of the last successful store_metadata or update_metadata of the
\* id (nothing if there was none), so after a successful write of m it
\* returns m; and update_metadata succeeds whenever its commit does, whether
\* a row with the id exists or not.
C32_StoreIsMapOnEmailId ==
    /\ \A id \in EmailIds : get_metadata(db, id) = written[id]
    /\ store_last.op # "none" =>
         /\ ~store_last.raised =>
              get_metadata(db, store_last.metadata.email_id)
                  = store_last.metadata
         /\ store_last.op = "update_metadata" =>
              (store_last.raised <=> ~store_last.committed)

\* update_metadata inserted the row of an id that had none, and another id
\* holds what was written to it before
C32_Witness ==
    /\ store_last.op = "update_metadata"
    /\ ~store_last.raised
    /\ ~store_last.existed
    /\ get_metadata(db, store_last.metadata.email_id) = store_last.metadata
    /\ \E id \in EmailIds :
         /\ id # store_last.metadata.email_id
         /\ written[id] # NoMetadata

\* C33: every POST of EmailSendingTool comes directly after authenticate()
\* returned true in the same call, and a call whose authenticate() returned
\* false ends there, returning the text "Authentication failed." without a
\* POST and without raising.
C33_PostOnlyAfterAuthentication ==
    /\ \A i \in 1..Len(send_trace) :
         /\ send_trace[i].op = "post" =>
              /\ i > 1
              /\ send_trace[i - 1] = [call |-> send_trace[i].call,
                                      op |-> "authenticate", value |-> TRUE]
         /\ (send_trace[i].op = "authenticate" /\ ~send_trace[i].value) =>
              /\ i < Len(send_trace)
              /\ send_trace[i + 1] = [call |-> send_trace[i].call,
                                      op |-> "return",
                                      text |-> "Authentication failed."]
    /\ send_pc = "post" =>
         /\ send_trace # <<>>
         /\ send_trace[Len(send_trace)].op = "authenticate"
         /\ send_trace[Len(send_trace)].value

\* one call failed to authenticate and returned, another one sent
C33_Witness ==
    /\ \E i \in 1..Len(send_trace) :
         send_trace[i].op = "authenticate" /\ ~send_trace[i].value
    /\ \E i \in 1..Len(send_trace) : send_trace[i].op = "post"
    /\ send_pc = "returned"
    /\ send_result = "Authentication failed."

====
